---- MODULE Spec2Model ----
(***************************************************************************)
(* The request coordinator of VIALabs-io/node-core: the per-driver         *)
(* processMessageRequest state machine (lock, populate, validate, feature, *)
(* sign, publish) with its signature, retry and feature-reply caches.      *)
(*                                                                         *)
(* The repository holds two revisions of DriverBase.processMessageRequest: *)
(*   build "populate" : src/src/drivers/DriverBase.ts (populateMessage,    *)
(*                      feature stage, PENALTY:CHAINMISS, no retry count)  *)
(*   build "retry"    : src/unnamed/part_004 (retry counter, validation of *)
(*                      the peer-supplied values, no populate, no feature) *)
(* A node is built from one of them; the variable build records which.     *)
(*                                                                         *)
(* Every await of the code is a step boundary: an invocation is suspended  *)
(* at pc = "populate" | "validate" | "feature" | "sign" while the awaited  *)
(* RPC, feature or signer call is outstanding, and other requests run.     *)
(*                                                                         *)
(* Specifications:                                                         *)
(*   Spec, FairSpec : the coordinator under the REQUESTs for its chain     *)
(*   RouteSpec      : the same with the other traffic of the bus           *)
(*                    (Vladiator.handleMessage)                            *)
(*   P2PSpec        : the bus ingress and its dedup window (ServiceP2P)    *)
(*   StreamSpec     : the filters of the data stream (DataStreamServer)    *)
(*   FeatureSpec    : DriverBase.ts with requests for unregistered         *)
(*                    features                                             *)
(*   PureSpec       : DriverEVM.populateMessage and isMessageValid called  *)
(*                    on their own                                         *)
(***************************************************************************)
EXTENDS Integers, Sequences, FiniteSets, TLC

VARIABLES build, drivers, signatures, retries, featureReplies, inflight, last,
          signedSigs, invalidFor, openStarts, startUnanswered, delivery,
          now, recentMessages, lastArrival, lastForwarded, arrived,
          filters, sent, probe

\* The orchestrator and the coordinator of one driver.
coreVars == <<build, drivers, signatures, retries, featureReplies, inflight, last,
              signedSigs, invalidFor, openStarts, startUnanswered, delivery>>
\* The bus ingress (ServiceP2P).
p2pVars == <<now, recentMessages, lastArrival, lastForwarded, arrived>>
\* The data stream (DataStreamServer).
streamVars == <<filters, sent>>
\* A direct call of a DriverEVM method.
pureVars == <<probe>>

vars == <<coreVars, p2pVars, streamVars, pureVars>>

---------------------------------------------------------------------------
\* Bounds of the model.

\* Invocations of processMessageRequest that may be suspended at once.
MaxInFlight == 2
\* Cap on the retry counter (the code lets it grow without bound).
MaxRetryCount == 5
\* The clock of the bus ingress stops here (milliseconds).
MaxTime == 10002

---------------------------------------------------------------------------
\* Program constants.

\* part_004:91  if (this.retries[txId] > 3) return;
RetryLimit == 3
\* ServiceP2P.ts:321  currentTime - m.timestamp <= 5000
DedupWindow == 5000
\* Vladiator.ts:387  source: 1010101010
HeartbeatSource == 1010101010

\* JavaScript undefined in a string-valued slot.  An optional number
\* (featureId) is a set: {} when undefined, {n} when it is n.
Undefined == "undefined"

\* this.nodePublicKey = this.nodeSigner.address (DriverBase constructor).
NodeAddress == "node"
PeerAuthor == "peer"

\* chainId of the driver that coordinates the requests (message.source).
ThisChainId == 1
\* vladiator.drivers is filled from the node's configuration at startup
\* (Vladiator.loadChainDrivers): the sets of chain ids a node may serve.
DriverTables == {{1, 56}, {1, 137}}
\* vladiator.features: the registered feature ids.
Features == {7}
\* chainConfig.message / this.contract.address.
MessageContract == "message"

---------------------------------------------------------------------------
\* Addresses: an address string is its 20 bytes plus its letter case.
\* Event decoding yields the checksummed form; a peer may send lower case.

Addr(id) == [id |-> id, lower |-> FALSE]
toLowerCase(a) == [a EXCEPT !.lower = TRUE]
\* ethers AddressCoder.encode -> getAddress: the ABI encoding of an address
\* does not depend on the letter case of the string.
getAddress(a) == [a EXCEPT !.lower = FALSE]

---------------------------------------------------------------------------
\* The source chain: receipts by transaction hash, each a list of logs.

NoValues == [undefined |-> TRUE]

V1 == [txId |-> 1, sender |-> Addr("s1"), recipient |-> Addr("r1"), chain |-> 56,
       express |-> FALSE, encodedData |-> "d1", confirmations |-> 2]
V2 == [txId |-> 2, sender |-> Addr("s2"), recipient |-> Addr("r2"), chain |-> 56,
       express |-> FALSE, encodedData |-> "d2", confirmations |-> 2]

SendRequested(addr, v) == [address |-> addr, topic |-> "SendRequested", args |-> v]
SendMessageWithFeature(addr, id, data) ==
    [address |-> addr, topic |-> "SendMessageWithFeature",
     args |-> [featureId |-> id, featureData |-> data]]

\* What a contract other than the message contract logged in a transaction
\* of its own: a SendRequested event that copies txId 1 with another
\* recipient.
VF == [V1 EXCEPT !.recipient = Addr("r9")]
OtherContract == "other"

\* h3 and h4 are transactions of the other contract: h3 logs a SendRequested
\* event, h4 a SendMessageWithFeature event and no SendRequested event.
Hashes == {"h1", "h2", "h3", "h4"}
Receipts ==
    [h \in Hashes |->
        CASE h = "h1" -> << SendRequested(MessageContract, V1) >>
          [] h = "h2" -> << SendMessageWithFeature(MessageContract, 7, "fd"),
                            SendRequested(MessageContract, V2) >>
          [] h = "h3" -> << SendRequested(OtherContract, VF) >>
          [] h = "h4" -> << SendMessageWithFeature(OtherContract, 7, "fd4") >>]

TxIds == {1, 2}

---------------------------------------------------------------------------
\* Messages (IMessage) and the REQUEST frames peers may publish.

NoSignature == [undefined |-> TRUE]

Request(h, v, fid) ==
    [type |-> "MESSAGE:REQUEST", author |-> PeerAuthor, source |-> ThisChainId,
     transactionHash |-> h, values |-> v,
     featureId |-> fid, featureData |-> IF fid = {} THEN Undefined ELSE "peer-fd",
     featureReply |-> Undefined, featureFailed |-> FALSE,
     signer |-> Undefined, signature |-> NoSignature]

\* What a peer can put on the bus: the honest frames, frames whose values
\* deviate from the chain in one field, and frames lacking a field.
RequestFrames ==
    { Request("h1", V1, {}), Request("h2", V2, {}) }
    \cup { Request("h1", [V1 EXCEPT !.sender = Addr("s9")], {}),
           Request("h1", [V1 EXCEPT !.sender = toLowerCase(Addr("s1"))], {}),
           Request("h1", [V1 EXCEPT !.txId = 2], {}),
           Request("h1", [V1 EXCEPT !.chain = 137], {}),
           Request("h1", V1, {7}) }
    \cup { Request(Undefined, V1, {}), Request("h1", NoValues, {}) }

---------------------------------------------------------------------------
\* The caches of a driver.

Absent == [st |-> "absent"]
LockedEntry == [st |-> "locked"]
Signed(sig) == [st |-> "signed", sig |-> sig]

Idle == [pc |-> "idle"]
Slots == 1 .. MaxInFlight

---------------------------------------------------------------------------
\* DriverEVM.populateMessage: values, featureId and featureData are taken
\* from the first log of the receipt with the event's topic, whatever the
\* address of the log; fields without such a log keep what the peer sent.

FirstLog(logs, topic) ==
    LET idx == {x \in 1 .. Len(logs) : logs[x].topic = topic}
    IN  IF idx = {} THEN 0 ELSE CHOOSE x \in idx : \A y \in idx : x <= y

populateMessage(m) ==
    LET logs == Receipts[m.transactionHash]
        f == FirstLog(logs, "SendMessageWithFeature")
        r == FirstLog(logs, "SendRequested")
        m1 == IF f = 0 THEN m
              ELSE [m EXCEPT !.featureId = {logs[f].args.featureId},
                             !.featureData = logs[f].args.featureData]
    IN  IF r = 0 THEN m1 ELSE [m1 EXCEPT !.values = logs[r].args]

\* A variant of LogMatches for C29: the address of the log is not looked at.
LogMatchesAnyAddress(log, m) ==
    /\ log.topic = "SendRequested"
    /\ toLowerCase(log.args.sender) = toLowerCase(m.values.sender)
    /\ toLowerCase(log.args.recipient) = toLowerCase(m.values.recipient)
    /\ log.args.express = m.values.express
    /\ log.args.encodedData = m.values.encodedData
    /\ log.args.confirmations = m.values.confirmations
    /\ log.args.txId = m.values.txId
    /\ log.args.chain = m.values.chain

\* The comparison of one receipt log with message.values in isMessageValid.
LogMatches(log, m) ==
    /\ log.address = MessageContract
    /\ log.topic = "SendRequested"
    /\ toLowerCase(log.args.sender) = toLowerCase(m.values.sender)
    /\ toLowerCase(log.args.recipient) = toLowerCase(m.values.recipient)
    /\ log.args.express = m.values.express
    /\ log.args.encodedData = m.values.encodedData
    /\ log.args.confirmations = m.values.confirmations
    /\ log.args.txId = m.values.txId
    /\ log.args.chain = m.values.chain

\* DriverEVM.isMessageValid.  rpc is what waitForTransaction did: "ok" (the
\* receipt, with the confirmations asked for), "short" (a receipt with fewer
\* confirmations) or "error" (it threw).  The deletion of the cache entry on
\* "short" is in EntriesAfterValidation.
isMessageValid(m, rpc) ==
    /\ m.transactionHash # Undefined
    /\ m.values # NoValues
    /\ rpc = "ok"
    /\ \E x \in 1 .. Len(Receipts[m.transactionHash]) :
          LogMatches(Receipts[m.transactionHash][x], m)

\* DriverEVM.isMessageValid, delete(this.signatures[message.values.txId]).
EntriesAfterValidation(m, rpc) ==
    IF rpc = "short" THEN [signatures EXCEPT ![m.values.txId] = Absent]
    ELSE signatures

\* A variant of signTransactionData for C28: sender and recipient change
\* places in the encoded tuple.
signTransactionDataSwapped(txData) ==
    [key |-> NodeAddress, txId |-> txData.txId,
     sourceChainId |-> txData.sourceChainId, destChainId |-> txData.destChainId,
     sender |-> getAddress(txData.recipient), recipient |-> getAddress(txData.sender),
     data |-> txData.data]

\* DriverBase.signTransactionData: personal-message signature with the node
\* key over keccak256 of the ABI encoding of the tuple; deterministic
\* (RFC 6979), so a signature is the tuple it signs and the key.
signTransactionData(txData) ==
    [key |-> NodeAddress, txId |-> txData.txId,
     sourceChainId |-> txData.sourceChainId, destChainId |-> txData.destChainId,
     sender |-> getAddress(txData.sender), recipient |-> getAddress(txData.recipient),
     data |-> txData.data]

\* A variant of TxData for C1: the signed tuple covers the featureData field, which
\* is the peer's when the receipt has no feature log.
TxDataWithFeatureData(m) ==
    [txId |-> m.values.txId, sourceChainId |-> ThisChainId,
     destChainId |-> m.values.chain, sender |-> m.values.sender,
     recipient |-> m.values.recipient, data |-> m.featureData]

\* The tuple processMessageRequest hands to signTransactionData.
TxData(m) ==
    [txId |-> m.values.txId, sourceChainId |-> ThisChainId,
     destChainId |-> m.values.chain, sender |-> m.values.sender,
     recipient |-> m.values.recipient, data |-> m.values.encodedData]

---------------------------------------------------------------------------
\* Frames handed to vladiator.sendMessage (serialised at once, so a frame is
\* the message as it is at the call).

\* A variant of Frame for C38: the author of the incoming frame is kept.
FrameKeepingAuthor(m, type) == [m EXCEPT !.type = type]

Frame(m, type) == [m EXCEPT !.type = type, !.author = NodeAddress]

SignedFrame(m, sig) ==
    [m EXCEPT !.type = "MESSAGE:SIGNED", !.author = NodeAddress,
              !.signer = NodeAddress, !.signature = sig]

Types(out) == [k \in 1 .. Len(out) |-> out[k].type]

---------------------------------------------------------------------------
\* State.
\*   build           which revision of DriverBase the node runs
\*   drivers         vladiator.drivers: the chain ids with a loaded driver
\*   signatures      DriverBase.signatures, by txId
\*   retries         DriverBase.retries, by txId (part_004 only)
\*   featureReplies  DriverBase.featureReplies, by txId (Undefined if none)
\*   inflight        the suspended invocations of processMessageRequest
\*   last            what the last step did: the frames it sent, the calls it
\*                   started, whether an exception escaped
\*   signedSigs      history: the signatures of the MESSAGE:SIGNED frames
\*                   sent so far, by values.txId
\*   invalidFor      history: the txIds of the MESSAGE:INVALID frames sent
\*   delivery        the frame the orchestrator's handleMessage took last, and
\*                   the drivers whose processMessageRequest it called
\*   now             Date.now() at the bus ingress, in milliseconds
\*   recentMessages  ServiceP2P.recentMessages
\*   lastArrival     history: by (type, author, transactionHash), the time of the
\*                   last MESSAGE:REQUEST and whether it was forwarded
\*   lastForwarded   history: by (type, author, transactionHash), the time of the
\*                   last MESSAGE:REQUEST forwarded to the message handler
\*   arrived         what ServiceP2P.handleMessage did with the frame it has
\*                   just taken
\*   filters         DataStreamServer.filters
\*   sent            the last message given to DataStreamServer.sendData and
\*                   whether it was emitted to the clients
\*   probe           the DriverEVM method called last, its argument and what
\*                   it returned
\*   openStarts      history: by values.txId, the FEATURE:START frames sent
\*                   minus the FEATURE:COMPLETED and FEATURE:FAILED frames
\*   startUnanswered history: by values.txId, whether a FEATURE:START was
\*                   sent and no FEATURE:COMPLETED since

NoDelivery ==
    [topic |-> "none", source |-> 0, author |-> "", invoked |-> {},
     streamed |-> FALSE]

\* Authors of frames on the bus, and the dedup keys of their REQUESTs.
Authors == {PeerAuthor, "peer2"}
Keys ==
    { << "MESSAGE:REQUEST", a, "h1" >> : a \in Authors }
    \cup { << "MESSAGE:SIGNED", PeerAuthor, "h1" >> }

Never == -1
NoArrival ==
    [topic |-> "none", key |-> << "", "", "" >>, forwarded |-> FALSE,
     sincePrev |-> Never, prevForwarded |-> FALSE, sinceForwarded |-> Never]

\* DataStreamServer constructor: filters = {}.
NoFilters == << >>
NoSend == [message |-> << >>, emitted |-> FALSE, given |-> FALSE]
NoProbe == [fn |-> "none"]

NoStep ==
    [op |-> "init", key |-> {}, entry |-> "none", res |-> "none", out |-> <<>>,
     calls |-> {}, threw |-> FALSE, trace |-> <<>>, ended |-> FALSE,
     matches |-> FALSE]

Init ==
    /\ build \in {"populate", "retry"}
    /\ drivers \in DriverTables
    /\ signatures = [t \in TxIds |-> Absent]
    /\ retries = [t \in TxIds |-> 0]
    /\ featureReplies = [t \in TxIds |-> Undefined]
    /\ inflight = [i \in Slots |-> Idle]
    /\ last = NoStep
    /\ signedSigs = [t \in TxIds |-> {}]
    /\ invalidFor = {}
    /\ openStarts = [t \in TxIds |-> 0]
    /\ startUnanswered = [t \in TxIds |-> FALSE]
    /\ delivery = NoDelivery
    /\ now = 0
    /\ recentMessages = << >>
    /\ lastArrival = [k \in Keys |-> [time |-> Never, forwarded |-> FALSE]]
    /\ lastForwarded = [k \in Keys |-> Never]
    /\ arrived = NoArrival
    /\ filters = NoFilters
    /\ sent = NoSend
    /\ probe = NoProbe

FreeSlots == {i \in Slots : inflight[i].pc = "idle"}
FreeSlot == CHOOSE i \in FreeSlots : \A j \in FreeSlots : i <= j

\* The frames of out with the given type and values.txId.
Sent(out, type, t) ==
    {x \in 1 .. Len(out) : out[x].type = type /\ out[x].values.txId = t}

\* startUnanswered[t] after the frames of out, taken in the order sent.
RECURSIVE UnansweredAfter(_, _, _)
UnansweredAfter(u, out, t) ==
    IF out = <<>> THEN u
    ELSE LET f == Head(out)
             u1 == IF f.values.txId # t THEN u
                   ELSE IF f.type = "FEATURE:START" THEN TRUE
                   ELSE IF f.type = "FEATURE:COMPLETED" THEN FALSE
                   ELSE u
         IN  UnansweredAfter(u1, Tail(out), t)

\* vladiator.sendMessage for each frame of out, and the history it leaves.
Publish(out) ==
    /\ openStarts' =
          [t \in TxIds |->
              openStarts[t] + Cardinality(Sent(out, "FEATURE:START", t))
                  - Cardinality(Sent(out, "FEATURE:COMPLETED", t))
                  - Cardinality(Sent(out, "FEATURE:FAILED", t))]
    /\ startUnanswered' =
          [t \in TxIds |-> UnansweredAfter(startUnanswered[t], out, t)]
    /\ signedSigs' =
          [t \in TxIds |->
              signedSigs[t] \cup
              {out[k].signature : k \in {x \in 1 .. Len(out) :
                    out[x].type = "MESSAGE:SIGNED" /\ out[x].values.txId = t}}]
    /\ invalidFor' =
          invalidFor \cup
          {out[k].values.txId : k \in {x \in 1 .. Len(out) :
                    out[x].type = "MESSAGE:INVALID"}}

\* History only: whether the values a peer put in its REQUEST agree with a
\* SendRequested log of the message contract in the receipt of the REQUEST's
\* transactionHash (the comparison of isMessageValid).
ClaimMatches(m) ==
    \E x \in 1 .. Len(Receipts[m.transactionHash]) :
        LogMatches(Receipts[m.transactionHash][x], m)

\* What an invocation keeps across its awaits besides the message: the
\* destDriver looked up at entry, and for the history the key it locked,
\* ClaimMatches of its REQUEST and the types of the frames it has sent.
Entering(m) ==
    [destDriver |-> m.values.chain \in drivers, key |-> m.values.txId,
     matches |-> ClaimMatches(m), trace |-> <<>>]

\* One step of the coordinator: the new caches, the new table of suspended
\* invocations, and the record of the step.
Step(op, keys, c, entry, res, r, infl, sigs, reps, rets) ==
    /\ signatures' = sigs
    /\ featureReplies' = reps
    /\ retries' = rets
    /\ inflight' = infl
    /\ last' = [op |-> op, key |-> keys, entry |-> entry, res |-> res,
                out |-> r.out, calls |-> r.calls, threw |-> r.threw,
                trace |-> c.trace \o Types(r.out), ended |-> r.slot = Idle,
                matches |-> c.matches]
    /\ Publish(r.out)
    /\ UNCHANGED <<build, drivers, p2pVars, streamVars, pureVars>>

\* A REQUEST without transactionHash or values returns at once.
Unkeyed == [matches |-> FALSE, trace |-> <<>>]

\* The invocation returns (or an exception escapes it) after sending out.
Return(out) == [slot |-> Idle, out |-> out, calls |-> {}, threw |-> FALSE]
Throw(out) == [slot |-> Idle, out |-> out, calls |-> {}, threw |-> TRUE]
\* The invocation sends out, starts call and is suspended at pc on it.
Await(pc, call, m, c, out) ==
    [slot |-> [pc |-> pc, msg |-> m, destDriver |-> c.destDriver, key |-> c.key,
               matches |-> c.matches, trace |-> c.trace \o Types(out)],
     out |-> out, calls |-> {call}, threw |-> FALSE]

---------------------------------------------------------------------------
\* src/src/drivers/DriverBase.ts, processMessageRequest.

\* A variant of ReplayFrame for C24: the cached feature reply is left out.
ReplayFrameWithoutReply(m, sig, reply) == SignedFrame(m, sig)

\* Lines 85-93: the frame that replays a cached signature.
ReplayFrame(m, sig, reply) ==
    SignedFrame(IF reply # Undefined THEN [m EXCEPT !.featureReply = reply] ELSE m,
                sig)

\* Lines 76-107: from the call to the first await (populateMessage).
processMessageRequest(m) ==
    /\ build = "populate"
    /\ IF m.transactionHash = Undefined \/ m.values = NoValues
       THEN Step("request", {}, Unkeyed, "none", "none", Return(<<>>), inflight,
                 signatures, featureReplies, retries)
       ELSE LET k == m.values.txId
                e == signatures[k]
                c == Entering(m)
            IN  CASE e.st = "signed" ->
                       Step("request", {k}, c, "signed", "none",
                            Return(<< ReplayFrame(m, e.sig, featureReplies[k]) >>),
                            inflight, signatures, featureReplies, retries)
                  [] e.st = "locked" ->
                       Step("request", {k}, c, "locked", "none", Return(<<>>),
                            inflight, signatures, featureReplies, retries)
                  [] e.st = "absent" ->
                       /\ FreeSlots # {}
                       /\ LET r == Await("populate", "populateMessage", m, c, <<>>)
                          IN  Step("request", {k}, c, "absent", "none", r,
                                   [inflight EXCEPT ![FreeSlot] = r.slot],
                                   [signatures EXCEPT ![k] = LockedEntry],
                                   featureReplies, retries)

\* Lines 106-118: populateMessage settles; on success isMessageValid starts.
afterPopulateMessage(i, rpc) ==
    /\ build = "populate"
    /\ inflight[i].pc = "populate"
    /\ LET inv == inflight[i]
           r == IF rpc = "ok"
                THEN Await("validate", "isMessageValid", populateMessage(inv.msg),
                           inv, <<>>)
                ELSE Return(<<>>)
       IN  Step("populate", {inv.key}, inv, "none", rpc, r,
                [inflight EXCEPT ![i] = r.slot],
                signatures, featureReplies, retries)

\* Lines 160-167: drivers[values.chain].signTransactionData is called; with
\* no driver under that key the member access throws a TypeError, which
\* nothing in processMessageRequest catches.
CallSign(inv, m, out) ==
    IF m.values.chain \in drivers
    THEN Await("sign", "signTransactionData", m, inv, out)
    ELSE Throw(out)

\* A variant of AfterValidation for C37: the answer of isMessageValid is not
\* looked at.
AfterValidationUnchecked(inv, valid) ==
    LET m == inv.msg
    IN  IF ~inv.destDriver
          THEN Return(<< Frame(m, "PENALTY:CHAINMISS") >>)
        ELSE IF m.featureId # {}
          THEN Await("feature", "processFeatures", Frame(m, "FEATURE:START"), inv,
                     << Frame(m, "FEATURE:START") >>)
        ELSE CallSign(inv, m, <<>>)

\* Lines 118-134 and 177-182: what follows the answer of isMessageValid.
AfterValidation(inv, valid) ==
    LET m == inv.msg
    IN  IF ~valid
          THEN Return(<< Frame(m, "MESSAGE:INVALID") >>)
        ELSE IF ~inv.destDriver
          THEN Return(<< Frame(m, "PENALTY:CHAINMISS") >>)
        ELSE IF m.featureId # {}
          THEN Await("feature", "processFeatures", Frame(m, "FEATURE:START"), inv,
                     << Frame(m, "FEATURE:START") >>)
        ELSE CallSign(inv, m, <<>>)

\* Lines 118-134 and 177-182: isMessageValid settles.
afterIsMessageValid(i, rpc) ==
    /\ build = "populate"
    /\ inflight[i].pc = "validate"
    /\ LET inv == inflight[i]
           r == AfterValidation(inv, isMessageValid(inv.msg, rpc))
       IN  Step("validate", {inv.key}, inv, "none", rpc, r,
                [inflight EXCEPT ![i] = r.slot],
                EntriesAfterValidation(inv.msg, rpc), featureReplies, retries)

\* processFeatures (lines 212-227) and the feature's process: what the
\* awaited promise settles to.  An unregistered featureId gives the message
\* back as it is; a registered feature replies, stays silent, sets
\* featureFailed, throws (caught in processFeatures, which sets
\* featureFailed) or rejects.
FeatureResults(m) ==
    IF m.featureId \subseteq Features
    THEN {"reply", "noreply", "featureFailed", "throw", "reject"}
    ELSE {"unregistered"}

processFeatures(m, res) ==
    CASE res = "reply" -> [m EXCEPT !.featureReply = "reply"]
      [] res \in {"featureFailed", "throw"} -> [m EXCEPT !.featureFailed = TRUE]
      [] OTHER -> m

\* A variant of FeatureStageFailed for C9: only the featureFailed flag is looked at.
FeatureFailedFlagOnly(m1, res) == m1.featureFailed = TRUE

\* Lines 137-138 and 144: the feature stage fails when the promise rejects
\* or the returned message has featureFailed set.
FeatureStageFailed(m1, res) == res = "reject" \/ m1.featureFailed = TRUE

\* A variant of AfterFeature for C13: a failed feature stage returns without
\* sending FEATURE:FAILED.
AfterFeatureSilentFailure(inv, m1, failed) ==
    IF failed THEN Return(<<>>)
    ELSE CallSign(inv, Frame(m1, "FEATURE:COMPLETED"),
                  << Frame(m1, "FEATURE:COMPLETED") >>)

\* Lines 135-158: what follows the settling of processFeatures.
AfterFeature(inv, m1, failed) ==
    IF failed THEN Return(<< Frame(m1, "FEATURE:FAILED") >>)
    ELSE CallSign(inv, Frame(m1, "FEATURE:COMPLETED"),
                  << Frame(m1, "FEATURE:COMPLETED") >>)

\* Lines 135-158: processFeatures settles.
afterProcessFeatures(i, res) ==
    /\ build = "populate"
    /\ inflight[i].pc = "feature"
    /\ res \in FeatureResults(inflight[i].msg)
    /\ LET inv == inflight[i]
           m1 == processFeatures(inv.msg, res)
           failed == FeatureStageFailed(m1, res)
           r == AfterFeature(inv, m1, failed)
           reps == IF ~failed /\ m1.featureReply # Undefined
                   THEN [featureReplies EXCEPT ![m1.values.txId] = m1.featureReply]
                   ELSE featureReplies
       IN  Step("feature", {inv.key}, inv, "none", res, r,
                [inflight EXCEPT ![i] = r.slot], signatures, reps, retries)

\* Lines 160-176: signTransactionData settles; the signature is stored under
\* values.txId and sent.
afterSignTransactionData(i) ==
    /\ build = "populate"
    /\ inflight[i].pc = "sign"
    /\ LET inv == inflight[i]
           m == inv.msg
           sig == signTransactionData(TxData(m))
           r == Return(<< SignedFrame(m, sig) >>)
       IN  Step("sign", {inv.key}, inv, "none", "ok", r,
                [inflight EXCEPT ![i] = r.slot],
                [signatures EXCEPT ![m.values.txId] = Signed(sig)],
                featureReplies, retries)

---------------------------------------------------------------------------
\* src/unnamed/part_004, processMessageRequest (the revision with retries).

\* A variant of RetryExhausted for C5: the request that brings the counter to the
\* limit is dropped already.
RetryExhaustedAtLimit(n) == n >= RetryLimit

\* A variant of RetryExhausted for C10: one more request is let through.
RetryExhaustedLate(n) == n > RetryLimit + 1

\* A variant of RetryExhausted for C36: the counter is never looked at.
RetryExhaustedNever(n) == FALSE

\* Line 91: the request is dropped when the counter exceeds the limit.
RetryExhausted(n) == n > RetryLimit

\* A variant of processMessageRequestRetry for C23: the retry counter is
\* incremented before the cache is looked at, so also for a locked txId.
processMessageRequestCountingFirst(m) ==
    /\ build = "retry"
    /\ IF m.transactionHash = Undefined \/ m.values = NoValues
       THEN Step("request", {}, Unkeyed, "none", "none", Return(<<>>), inflight,
                 signatures, featureReplies, retries)
       ELSE LET k == m.values.txId
                e == signatures[k]
                c == Entering(m)
                n == retries[k] + 1
                rets == [retries EXCEPT ![k] = n]
            IN  CASE e.st = "signed" ->
                       /\ n <= MaxRetryCount
                       /\ Step("request", {k}, c, "signed", "none",
                               Return(<< SignedFrame(m, e.sig) >>),
                               inflight, signatures, featureReplies, rets)
                  [] e.st = "locked" ->
                       /\ n <= MaxRetryCount
                       /\ Step("request", {k}, c, "locked", "none", Return(<<>>),
                               inflight, signatures, featureReplies, rets)
                  [] e.st = "absent" /\ RetryExhausted(n) ->
                       /\ n <= MaxRetryCount
                       /\ Step("request", {k}, c, "absent", "dropped", Return(<<>>),
                               inflight, signatures, featureReplies, rets)
                  [] e.st = "absent" /\ ~RetryExhausted(n) ->
                       /\ n <= MaxRetryCount
                       /\ FreeSlots # {}
                       /\ LET r == Await("validate", "isMessageValid", m, c, <<>>)
                          IN  Step("request", {k}, c, "absent", "none", r,
                                   [inflight EXCEPT ![FreeSlot] = r.slot],
                                   [signatures EXCEPT ![k] = LockedEntry],
                                   featureReplies, rets)

\* Lines 71-102: from the call to the first await (isMessageValid).
processMessageRequestRetry(m) ==
    /\ build = "retry"
    /\ IF m.transactionHash = Undefined \/ m.values = NoValues
       THEN Step("request", {}, Unkeyed, "none", "none", Return(<<>>), inflight,
                 signatures, featureReplies, retries)
       ELSE LET k == m.values.txId
                e == signatures[k]
                c == Entering(m)
                n == retries[k] + 1
                rets == [retries EXCEPT ![k] = n]
            IN  CASE e.st = "signed" ->
                       Step("request", {k}, c, "signed", "none",
                            Return(<< SignedFrame(m, e.sig) >>),
                            inflight, signatures, featureReplies, retries)
                  [] e.st = "locked" ->
                       Step("request", {k}, c, "locked", "none", Return(<<>>),
                            inflight, signatures, featureReplies, retries)
                  [] e.st = "absent" /\ RetryExhausted(n) ->
                       /\ n <= MaxRetryCount
                       /\ Step("request", {k}, c, "absent", "dropped", Return(<<>>),
                               inflight, signatures, featureReplies, rets)
                  [] e.st = "absent" /\ ~RetryExhausted(n) ->
                       /\ n <= MaxRetryCount
                       /\ FreeSlots # {}
                       /\ LET r == Await("validate", "isMessageValid", m, c, <<>>)
                          IN  Step("request", {k}, c, "absent", "none", r,
                                   [inflight EXCEPT ![FreeSlot] = r.slot],
                                   [signatures EXCEPT ![k] = LockedEntry],
                                   featureReplies, rets)

\* Lines 102-108 and 125-131: what follows the answer of isMessageValid.
AfterValidationRetry(inv, valid) ==
    IF ~valid THEN Return(<< Frame(inv.msg, "MESSAGE:INVALID") >>)
    ELSE IF ~inv.destDriver THEN Return(<<>>)
    ELSE Await("sign", "signTransactionData", inv.msg, inv, <<>>)

\* Lines 102-108 and 125-131: isMessageValid of drivers[message.source]
\* settles (message.source is this driver's chain id: the orchestrator
\* routes a request to the driver of its source).
afterIsMessageValidRetry(i, rpc) ==
    /\ build = "retry"
    /\ inflight[i].pc = "validate"
    /\ LET inv == inflight[i]
           r == AfterValidationRetry(inv, isMessageValid(inv.msg, rpc))
       IN  Step("validate", {inv.key}, inv, "none", rpc, r,
                [inflight EXCEPT ![i] = r.slot],
                EntriesAfterValidation(inv.msg, rpc), featureReplies, retries)

\* Lines 108-124: signTransactionData settles.
afterSignTransactionDataRetry(i) ==
    /\ build = "retry"
    /\ inflight[i].pc = "sign"
    /\ LET inv == inflight[i]
           m == inv.msg
           sig == signTransactionData(TxData(m))
           r == Return(<< SignedFrame(m, sig) >>)
       IN  Step("sign", {inv.key}, inv, "none", "ok", r,
                [inflight EXCEPT ![i] = r.slot],
                [signatures EXCEPT ![m.values.txId] = Signed(sig)],
                featureReplies, retries)

---------------------------------------------------------------------------
\* src/src/Vladiator.ts, handleMessage: the orchestrator's bus handler.

PopulateOutcomes == {"ok", "error"}
ValidateOutcomes == {"ok", "short", "error"}
FeatureOutcomes == {"reply", "noreply", "featureFailed", "throw", "reject", "unregistered"}

PeerDiscovery == "_peer-discovery._p2p._pubsub"

\* What else arrives from the bus, as a topic and the decoded payload,
\* besides the REQUEST frames for this driver's chain: a REQUEST whose source
\* is another chain, a payload of type MESSAGE:REQUEST published on the
\* MESSAGE:SIGNED topic, and a peer-discovery frame.
StrayFrames ==
    { << "MESSAGE:REQUEST", [Request("h1", V1, {}) EXCEPT !.source = 56] >>,
      << "MESSAGE:SIGNED", Request("h1", V1, {}) >>,
      << PeerDiscovery, Request("h1", V1, {}) >> }

\* A variant of Routed for C40: a MESSAGE:SIGNED frame is handed to the driver
\* as well.
RoutedSignedToo(topic, m) ==
    IF topic = PeerDiscovery THEN {}
    ELSE IF m.source \notin drivers THEN {}
    ELSE IF topic \in {"MESSAGE:REQUEST", "MESSAGE:SIGNED"} THEN {m.source}
    ELSE {}

\* A variant of Routed for C15: the frame is routed by the source alone,
\* whatever its topic.
RoutedBySourceOnly(topic, m) ==
    IF topic # PeerDiscovery /\ m.source \in drivers THEN {m.source} ELSE {}

\* Lines 238 and 255-258: the chain ids of the drivers whose
\* processMessageRequest is called for a frame.
Routed(topic, m) ==
    IF topic = PeerDiscovery THEN {}
    ELSE IF m.source \notin drivers THEN {}
    ELSE IF topic = "MESSAGE:REQUEST" THEN {m.source}
    ELSE {}

\* The frame does not reach this driver: its caches and its suspended
\* invocations stay as they are.
Bypass ==
    /\ last' = [NoStep EXCEPT !.op = "bypass"]
    /\ UNCHANGED <<build, drivers, signatures, retries, featureReplies, inflight,
                   signedSigs, invalidFor, openStarts, startUnanswered,
                   p2pVars, streamVars, pureVars>>

\* Lines 237-259.  The payload is logged, emitted and handed to the data
\* stream (lines 249-253) unless the topic is peer discovery; then the
\* driver of message.source, if loaded, gets the REQUEST.  The call to
\* processMessageRequest is not awaited.
handleMessage(topic, m) ==
    /\ delivery' = [topic |-> topic,
                    source |-> IF topic = PeerDiscovery THEN 0 ELSE m.source,
                    author |-> IF topic = PeerDiscovery THEN "" ELSE m.author,
                    invoked |-> Routed(topic, m),
                    streamed |-> topic # PeerDiscovery]
    /\ IF ThisChainId \in Routed(topic, m)
       THEN processMessageRequest(m) \/ processMessageRequestRetry(m)
       ELSE Bypass

\* A suspended invocation is resumed: no frame is taken from the bus.
Resume(A) == A /\ delivery' = NoDelivery

Receive ==
    \E m \in RequestFrames : build = "populate" /\ handleMessage("MESSAGE:REQUEST", m)
ReceiveRetry ==
    \E m \in RequestFrames : build = "retry" /\ handleMessage("MESSAGE:REQUEST", m)
Stray == \E f \in StrayFrames : handleMessage(f[1], f[2])
Populated ==
    \E i \in Slots, rpc \in PopulateOutcomes : Resume(afterPopulateMessage(i, rpc))
Validated ==
    \E i \in Slots, rpc \in ValidateOutcomes : Resume(afterIsMessageValid(i, rpc))
ValidatedRetry ==
    \E i \in Slots, rpc \in ValidateOutcomes : Resume(afterIsMessageValidRetry(i, rpc))
FeatureSettled ==
    \E i \in Slots, res \in FeatureOutcomes : Resume(afterProcessFeatures(i, res))
SignSettled == \E i \in Slots : Resume(afterSignTransactionData(i))
SignSettledRetry == \E i \in Slots : Resume(afterSignTransactionDataRetry(i))

Next ==
    \/ Receive
    \/ ReceiveRetry
    \/ Populated
    \/ Validated
    \/ ValidatedRetry
    \/ FeatureSettled
    \/ SignSettled
    \/ SignSettledRetry

Spec == Init /\ [][Next]_vars

\* The coordinator with the other traffic of the bus.
RouteNext == Next \/ Stray

RouteSpec == Init /\ [][RouteNext]_vars

\* Vladiator.sendHeartbeat line 386: one of the status lines, picked at
\* random.
Statuses == {"status1", "status2"}

\* A variant of Heartbeat for C33: the heartbeat carries the chain id of the
\* driver as its source.
HeartbeatFromThisChain(author, status) ==
    [Request(status, NoValues, {}) EXCEPT
        !.type = "HEARTBEAT", !.source = ThisChainId, !.author = author]

\* Line 387: {type, source, author, transactionHash}; the other fields of
\* IMessage are undefined.
Heartbeat(author, status) ==
    [Request(status, NoValues, {}) EXCEPT
        !.type = "HEARTBEAT", !.source = HeartbeatSource, !.author = author]

\* Lines 318-388, called every two minutes (line 69): the heartbeat is
\* published, no cache is touched.
sendHeartbeat ==
    /\ \E status \in Statuses :
          last' = [NoStep EXCEPT !.op = "heartbeat",
                                 !.out = << Heartbeat(NodeAddress, status) >>]
    /\ delivery' = NoDelivery
    /\ UNCHANGED <<build, drivers, signatures, retries, featureReplies, inflight,
                   signedSigs, invalidFor, openStarts, startUnanswered,
                   p2pVars, streamVars, pureVars>>

\* The heartbeats of a peer, and a frame a peer publishes on the HEARTBEAT
\* topic with the chain id of a loaded driver as its source.
HeartbeatFrames ==
    { << "HEARTBEAT", Heartbeat(PeerAuthor, status) >> : status \in Statuses }
    \cup { << "HEARTBEAT", [Heartbeat(PeerAuthor, "status1") EXCEPT
                               !.source = ThisChainId] >> }

ReceiveHeartbeat == \E f \in HeartbeatFrames : handleMessage(f[1], f[2])

\* A frame whose source is neither a chain of the driver table nor the
\* heartbeat's.
UnknownSource == 999
UnknownSourceFrames ==
    { << "MESSAGE:REQUEST", [Request("h1", V1, {}) EXCEPT !.source = UnknownSource] >>,
      << "MESSAGE:SIGNED", [Request("h1", V1, {}) EXCEPT !.source = UnknownSource] >> }

ReceiveUnknownSource == \E f \in UnknownSourceFrames : handleMessage(f[1], f[2])

\* ServiceP2P.connect line 152, emitSelf: the bus delivers a frame the node
\* has just published to the node itself, on the topic of its type
\* (sendMessage publishes message.type, Vladiator.ts line 286).
SelfDelivery ==
    \E x \in 1 .. Len(last.out) : handleMessage(last.out[x].type, last.out[x])

\* The orchestrator with everything the bus delivers and the heartbeat timer.
BusNext ==
    \/ Next
    \/ Stray
    \/ sendHeartbeat
    \/ ReceiveHeartbeat
    \/ ReceiveUnknownSource
    \/ SelfDelivery

BusSpec == Init /\ [][BusNext]_vars

\* A REQUEST whose featureId no feature of this node is registered under.
UnregisteredFrames == { Request("h1", V1, {9}) }

ReceiveUnregistered ==
    \E m \in UnregisteredFrames :
        build = "populate" /\ handleMessage("MESSAGE:REQUEST", m)

\* The coordinator of DriverBase.ts with requests for unregistered features.
FeatureNext ==
    \/ Receive
    \/ ReceiveUnregistered
    \/ Populated
    \/ Validated
    \/ FeatureSettled
    \/ SignSettled

FeatureInit == Init /\ build = "populate"

FeatureSpec == FeatureInit /\ [][FeatureNext]_vars

\* The awaited promises settle: every suspended invocation is resumed.
\* Nothing obliges a peer to send a REQUEST.
Settled(i) ==
    \/ \E rpc \in PopulateOutcomes : Resume(afterPopulateMessage(i, rpc))
    \/ \E rpc \in ValidateOutcomes : Resume(afterIsMessageValid(i, rpc))
    \/ \E rpc \in ValidateOutcomes : Resume(afterIsMessageValidRetry(i, rpc))
    \/ \E res \in FeatureOutcomes : Resume(afterProcessFeatures(i, res))
    \/ Resume(afterSignTransactionData(i))
    \/ Resume(afterSignTransactionDataRetry(i))

Progress == \A i \in Slots : WF_vars(Settled(i))

FairSpec == Spec /\ Progress

---------------------------------------------------------------------------
\* src/src/services/ServiceP2P.ts: the bus ingress in front of the message
\* handler, with its window of recently forwarded frames.

\* The clock advances between two frames by one of these amounts.
Ticks == {2500, 2501}

\* message.transactionHash || '' and message.author || ''.
OrEmpty(x) == IF x = Undefined THEN "" ELSE x

\* The frames that reach the ingress: the REQUESTs of two authors for one
\* transaction, a SIGNED frame for it, and a heartbeat without
\* transactionHash.
IngressFrames ==
    { << "MESSAGE:REQUEST", [Request("h1", V1, {}) EXCEPT !.author = a] >> :
          a \in Authors }
    \cup { << "MESSAGE:SIGNED", Request("h1", V1, {}) >>,
           << "HEARTBEAT", Request(Undefined, NoValues, {}) >> }

\* A variant of Fresh for C11: an entry exactly 5000 ms old is already stale.
FreshBelowWindow(m, currentTime) == currentTime - m.timestamp < DedupWindow

\* A variant of Fresh for C31: an entry stays for two windows.
FreshForTwoWindows(m, currentTime) == currentTime - m.timestamp <= 2 * DedupWindow

\* Lines 321 and 328: currentTime - m.timestamp <= 5000.
Fresh(m, currentTime) == currentTime - m.timestamp <= DedupWindow

\* Line 321: recentMessages.filter(...).
RECURSIVE Filtered(_, _)
Filtered(ms, currentTime) ==
    IF ms = << >> THEN << >>
    ELSE IF Fresh(Head(ms), currentTime)
         THEN << Head(ms) >> \o Filtered(Tail(ms), currentTime)
         ELSE Filtered(Tail(ms), currentTime)

\* Lines 324-329: recentMessages.some(...).
isDuplicate(ms, topic, author, transactionHash, currentTime) ==
    \E x \in 1 .. Len(ms) :
        /\ ms[x].type = topic
        /\ ms[x].author = author
        /\ ms[x].transactionHash = transactionHash
        /\ \/ topic = "MESSAGE:SIGNED"
           \/ topic = "MESSAGE:REQUEST" /\ Fresh(ms[x], currentTime)

\* The history of the MESSAGE:REQUEST and MESSAGE:SIGNED frames, by dedup key.
Arrival(topic, k, forwarded) ==
    /\ arrived' =
          [topic |-> topic, key |-> k, forwarded |-> forwarded,
           sincePrev |-> IF k \in Keys /\ lastArrival[k].time # Never
                         THEN now - lastArrival[k].time ELSE Never,
           prevForwarded |-> k \in Keys /\ lastArrival[k].forwarded,
           sinceForwarded |-> IF k \in Keys /\ lastForwarded[k] # Never
                              THEN now - lastForwarded[k] ELSE Never]
    /\ lastArrival' =
          IF k \in Keys
          THEN [lastArrival EXCEPT ![k] = [time |-> now, forwarded |-> forwarded]]
          ELSE lastArrival
    /\ lastForwarded' =
          IF k \in Keys /\ forwarded
          THEN [lastForwarded EXCEPT ![k] = now]
          ELSE lastForwarded

\* Lines 315-340, ServiceP2P.handleMessage: prune the window, drop a REQUEST
\* or SIGNED frame that repeats a recorded one, record and forward the rest
\* (forwarded: this.messageHandler is called, line 339).
P2PHandleMessage(topic, m) ==
    LET currentTime == now
        transactionHash == OrEmpty(m.transactionHash)
        author == OrEmpty(m.author)
        kept == Filtered(recentMessages, currentTime)
        k == IF topic \in {"MESSAGE:SIGNED", "MESSAGE:REQUEST"}
             THEN << topic, author, transactionHash >>
             ELSE << "", "", "" >>
    IN  /\ IF topic \in {"MESSAGE:SIGNED", "MESSAGE:REQUEST"}
           THEN IF isDuplicate(kept, topic, author, transactionHash, currentTime)
                THEN /\ recentMessages' = kept
                     /\ Arrival(topic, k, FALSE)
                ELSE /\ recentMessages' =
                           Append(kept, [timestamp |-> currentTime, author |-> author,
                                         transactionHash |-> transactionHash,
                                         type |-> topic])
                     /\ Arrival(topic, k, TRUE)
           ELSE /\ recentMessages' = kept
                /\ Arrival(topic, k, TRUE)
        /\ UNCHANGED <<now, coreVars, streamVars, pureVars>>

Ingress == \E f \in IngressFrames : P2PHandleMessage(f[1], f[2])

\* Time passes.
Tick ==
    \E d \in Ticks :
        /\ now + d <= MaxTime
        /\ now' = now + d
        /\ arrived' = NoArrival
        /\ UNCHANGED <<recentMessages, lastArrival, lastForwarded,
                       coreVars, streamVars, pureVars>>

P2PNext == Ingress \/ Tick

\* The ingress of one node.
P2PInit == Init /\ build = "populate" /\ drivers = {1, 56}

P2PSpec == P2PInit /\ [][P2PNext]_vars

---------------------------------------------------------------------------
\* The payload of a bus frame is bytes: JSON.parse(new TextDecoder()
\* .decode(data)) gives the message for the text of a message and throws for
\* anything else (ServiceP2P.ts lines 300-306, Vladiator.ts lines 241-247).

Encoded(m) == [text |-> "json", message |-> m]
Garbage == [text |-> "garbage"]
Parses(data) == data.text = "json"
Parsed(data) == data.message

\* What ServiceP2P has done with a frame it could not decode.
Undecoded == [NoArrival EXCEPT !.topic = "undecodable"]

\* A variant of DroppedAtListener for C34: the window is pruned before the
\* payload is decoded.
DroppedAfterCleanup ==
    /\ arrived' = Undecoded
    /\ recentMessages' = Filtered(recentMessages, now)
    /\ UNCHANGED <<now, lastArrival, lastForwarded, coreVars, streamVars,
                   pureVars>>

\* ServiceP2P.ts lines 300-306: the listener returns from its catch block;
\* this.handleMessage (line 308) is not called.
DroppedAtListener ==
    /\ arrived' = Undecoded
    /\ UNCHANGED <<now, recentMessages, lastArrival, lastForwarded, coreVars,
                   streamVars, pureVars>>

\* ServiceP2P.ts lines 294-312, the pubsub 'message' listener.
onPubsubMessage(topic, data) ==
    IF topic = PeerDiscovery
    THEN /\ arrived' = NoArrival
         /\ UNCHANGED <<now, recentMessages, lastArrival, lastForwarded,
                        coreVars, streamVars, pureVars>>
    ELSE IF ~Parses(data) THEN DroppedAtListener
    ELSE P2PHandleMessage(topic, Parsed(data))

\* Vladiator.ts lines 237-259 with the payload as it comes from the bus: a
\* payload that does not decode is logged to the console and dropped before
\* it is emitted, streamed or routed.
handleRawMessage(topic, data) ==
    IF topic # PeerDiscovery /\ ~Parses(data)
    THEN /\ delivery' = [NoDelivery EXCEPT !.topic = topic]
         /\ Bypass
    ELSE handleMessage(topic, Parsed(data))

\* The payloads of the frames on MESSAGE:REQUEST: an honest REQUEST, one
\* with a sender that is not the logged one, and bytes that are no JSON.
DecodePayloads ==
    { Encoded(Request("h1", V1, {})),
      Encoded(Request("h1", [V1 EXCEPT !.sender = Addr("s9")], {})),
      Garbage }

PubsubMessage ==
    \E data \in {Encoded(Request("h1", V1, {})), Garbage} :
        onPubsubMessage("MESSAGE:REQUEST", data)

RawMessage ==
    \E data \in DecodePayloads :
        build = "retry" /\ handleRawMessage("MESSAGE:REQUEST", data)

\* The two decoders of bus payloads, with the window of the ingress and the
\* caches of the coordinator (part_004) behind them.
DecodeNext ==
    \/ PubsubMessage
    \/ Tick
    \/ RawMessage
    \/ ValidatedRetry
    \/ SignSettledRetry

DecodeInit == Init /\ build = "retry" /\ drivers = {1, 56}

DecodeSpec == DecodeInit /\ [][DecodeNext]_vars

---------------------------------------------------------------------------
\* src/src/DataStreamServer.ts: the filters of the data stream.
\*
\* A JavaScript value is a string, a number, an object or undefined; an
\* object is the list of its own properties in insertion order, each a pair
\* << key, value >>.  Messages come from JSON.parse and filters from the
\* caller, so an object of one is never the same object as one of the other.

Str(v) == [t |-> "string", v |-> v]
Num(v) == [t |-> "number", v |-> v]
Obj(fields) == [t |-> "object", fields |-> fields]
JsUndefined == [t |-> "undefined"]

\* object[key]
RECURSIVE Get(_, _)
Get(fields, key) ==
    IF fields = << >> THEN JsUndefined
    ELSE IF Head(fields)[1] = key THEN Head(fields)[2]
    ELSE Get(Tail(fields), key)

\* a === b
StrictEquals(a, b) == a.t # "object" /\ a = b

\* message.values?.[subKey]
ValuesField(message, subKey) ==
    LET values == Get(message, "values")
    IN  IF values.t = "object" THEN Get(values.fields, subKey) ELSE JsUndefined

StreamValues(txId, sender) ==
    Obj(<< << "txId", Str(txId) >>, << "sender", Str(sender) >> >>)

\* The messages handed to sendData: with and without values.
StreamMessages ==
    { << << "type", Str(ty) >>, << "author", Str(a) >>, << "source", Num("1") >> >>
          \o v :
        ty \in {"MESSAGE:REQUEST", "MESSAGE:SIGNED"},
        a \in {PeerAuthor, NodeAddress},
        v \in { << >>,
                << << "values", StreamValues("1", "s1") >> >>,
                << << "values", StreamValues("2", "s2") >> >> } }

\* The filters a caller may configure (Partial<IMessage>): none, one
\* top-level field, a number given as a string, fields of values, a mix, an
\* empty values object, and a key no message has.
FilterChoices ==
    { << >>,
      << << "type", Str("MESSAGE:SIGNED") >> >>,
      << << "author", Str(NodeAddress) >> >>,
      << << "source", Num("1") >> >>,
      << << "source", Str("1") >> >>,
      << << "values", Obj(<< << "sender", Str("s1") >> >>) >> >>,
      << << "values", Obj(<< << "txId", Str("1") >>, << "sender", Str("s2") >> >>) >> >>,
      << << "author", Str(NodeAddress) >>,
         << "values", Obj(<< << "txId", Str("1") >> >>) >> >>,
      << << "values", Obj(<< >>) >> >>,
      << << "executionHash", Str("e1") >> >> }

\* A variant of ValuesPass for C16: the fields listed under values are not
\* looked at.
ValuesIgnored(valuesFilter, message) == TRUE

\* Lines 73-80: the loop over the fields listed under values; FALSE is the
\* return false of line 77.
RECURSIVE ValuesPass(_, _)
ValuesPass(valuesFilter, message) ==
    IF valuesFilter = << >> THEN TRUE
    ELSE LET subKey == Head(valuesFilter)[1]
         IN  IF ~StrictEquals(Head(valuesFilter)[2], ValuesField(message, subKey))
             THEN FALSE
             ELSE ValuesPass(Tail(valuesFilter), message)

\* Lines 65-86: the loop over the keys of the filter.
RECURSIVE FiltersPass(_, _)
FiltersPass(fs, message) ==
    IF fs = << >> THEN TRUE
    ELSE LET key == Head(fs)[1]
             filterValue == Head(fs)[2]
             messageValue == Get(message, key)
         IN  IF key = "values" /\ filterValue.t = "object"
             THEN IF ~ValuesPass(filterValue.fields, message) THEN FALSE
                  ELSE FiltersPass(Tail(fs), message)
             ELSE IF ~StrictEquals(filterValue, messageValue) THEN FALSE
                  ELSE FiltersPass(Tail(fs), message)

\* Lines 60-87, DataStreamServer.applyFilters.
applyFilters(message) ==
    IF Len(filters) = 0 THEN TRUE ELSE FiltersPass(filters, message)

\* Lines 56-58.
setFilters(fs) ==
    /\ filters' = fs
    /\ sent' = NoSend
    /\ UNCHANGED <<coreVars, p2pVars, pureVars>>

\* Lines 89-93: io.emit('message', ...) when applyFilters(message).
sendData(message) ==
    /\ sent' = [message |-> message, emitted |-> applyFilters(message),
                given |-> TRUE]
    /\ UNCHANGED <<filters, coreVars, p2pVars, pureVars>>

FiltersSet == \E fs \in FilterChoices : setFilters(fs)
DataSent == \E message \in StreamMessages : sendData(message)

StreamNext == FiltersSet \/ DataSent

\* The data stream of one node.
StreamInit == Init /\ build = "populate" /\ drivers = {1, 56}

StreamSpec == StreamInit /\ [][StreamNext]_vars

---------------------------------------------------------------------------
\* src/src/drivers/DriverEVM.ts: populateMessage and isMessageValid called
\* with any message a peer can send.

ProbeValues ==
    { V1, V2, VF, NoValues,
      [V1 EXCEPT !.txId = 2],
      [V1 EXCEPT !.chain = 137],
      [V1 EXCEPT !.express = TRUE],
      [V1 EXCEPT !.confirmations = 3],
      [V1 EXCEPT !.encodedData = "d9"],
      [V1 EXCEPT !.sender = Addr("s9")],
      [V1 EXCEPT !.sender = toLowerCase(Addr("s1"))],
      [V1 EXCEPT !.recipient = toLowerCase(Addr("r1"))] }

ProbeMessages ==
    { Request(h, v, fid) : h \in Hashes \cup {Undefined}, v \in ProbeValues,
                           fid \in {{}, {7}} }

\* Lines 130-165: populateMessage(message) with the receipt fetched.
CallPopulateMessage ==
    \E m \in ProbeMessages :
        /\ m.transactionHash # Undefined
        /\ probe' = [fn |-> "populateMessage", msg |-> m, rpc |-> "ok",
                     result |-> populateMessage(m)]
        /\ UNCHANGED <<coreVars, p2pVars, streamVars>>

\* Lines 56-104: isMessageValid(message), with the entry of values.txId
\* deleted on a confirmation shortfall.
CallIsMessageValid ==
    \E m \in ProbeMessages, rpc \in ValidateOutcomes :
        /\ probe' = [fn |-> "isMessageValid", msg |-> m, rpc |-> rpc,
                     result |-> isMessageValid(m, rpc)]
        /\ signatures' =
              IF m.transactionHash # Undefined /\ m.values # NoValues
              THEN EntriesAfterValidation(m, rpc) ELSE signatures
        /\ UNCHANGED <<build, drivers, retries, featureReplies, inflight, last,
                       signedSigs, invalidFor, openStarts, startUnanswered,
                       delivery, p2pVars, streamVars>>

\* Vladiator.loadChainDrivers lines 264-276 for one entry of the
\* configuration, and DriverEVM.connect lines 36-48.  The driver is put into
\* the table (line 271) before connect is called (line 275, not awaited).
\* connect throws inside its try block when the registry has no message
\* contract for the chain; the catch block logs and returns, so the promise
\* resolves; provider and contract are set only on the other path.
CallConnect ==
    \E chainId \in drivers, configured \in BOOLEAN :
        /\ probe' = [fn |-> "connect", chain |-> chainId,
                     configured |-> configured, threw |-> FALSE,
                     provider |-> configured, inTable |-> chainId \in drivers]
        /\ UNCHANGED <<coreVars, p2pVars, streamVars>>

PureNext == CallPopulateMessage \/ CallIsMessageValid \/ CallConnect

PureInit == Init /\ build = "populate" /\ drivers = {1, 56}

PureSpec == PureInit /\ [][PureNext]_vars

---------------------------------------------------------------------------
\* Helpers of the properties.

\* The values populateMessage derives from the receipt of hash h.
OnChainValues(h) == populateMessage(Request(h, NoValues, {})).values

\* The destination chains recorded on the source chain.
OnChainDestinations ==
    UNION {{Receipts[h][x].args.chain :
                x \in {y \in 1 .. Len(Receipts[h]) :
                          Receipts[h][y].topic = "SendRequested"}} : h \in Hashes}

\* values with its addresses in checksum case.
Canonical(v) ==
    [v EXCEPT !.sender = getAddress(@), !.recipient = getAddress(@)]

SignedFramesOf(out) == {out[k] : k \in {x \in 1 .. Len(out) : out[x].type = "MESSAGE:SIGNED"}}

\* The last step resumed a suspended invocation.
Resumed == last.op \in {"populate", "validate", "feature", "sign"}

---------------------------------------------------------------------------
\* C1: all MESSAGE:SIGNED frames the node has sent with values.txId = txId
\* carry one and the same signature, over every sequence and interleaving
\* of REQUESTs.
C1_OneSignaturePerTxId == \A t \in TxIds : Cardinality(signedSigs[t]) <= 1

\* A cached signature has just been replayed: the second (or later)
\* MESSAGE:SIGNED for its txId.
C1_Witness ==
    /\ last.op = "request"
    /\ last.entry = "signed"
    /\ \E f \in SignedFramesOf(last.out) : signedSigs[f.values.txId] = {f.signature}

\* C2: once a MESSAGE:SIGNED has been sent for txId, every later REQUEST for
\* that txId sends exactly one MESSAGE:SIGNED with the cached signature and
\* starts no populateMessage, isMessageValid or signTransactionData call.
\* (A REQUEST step that sends nothing leaves signedSigs as it was, so
\* signedSigs[t] # {} then says that txId had been signed before it.)
C2_ReplayFromCache ==
    \A t \in TxIds :
        (last.op = "request" /\ last.key = {t} /\ signedSigs[t] # {}) =>
            /\ Types(last.out) = << "MESSAGE:SIGNED" >>
            /\ last.out[1].signature \in signedSigs[t]
            /\ last.calls = {}

\* C3: every MESSAGE:SIGNED frame sent, first sign or replay, carries the
\* values populateMessage derives from the receipt of its transactionHash.
\* (Addresses are compared as addresses, whatever their letter case.)
C3_SignedValuesFromChain ==
    \A f \in SignedFramesOf(last.out) :
        Canonical(f.values) = Canonical(OnChainValues(f.transactionHash))

\* C4: an invocation started by a REQUEST for an absent txId whose values
\* differ from the on-chain SendRequested log never sends MESSAGE:SIGNED,
\* and when its validation has run against the receipt it has sent
\* MESSAGE:INVALID.
C4_MismatchIsInvalid ==
    (Resumed /\ ~last.matches) =>
        /\ SignedFramesOf(last.out) = {}
        /\ (last.op = "validate" /\ last.res = "ok") =>
               Types(last.out) = << "MESSAGE:INVALID" >>

\* A REQUEST with values and transactionHash, for a txId whose cache entry
\* was absent, whose values match a SendRequested log of its receipt and
\* whose destination driver is loaded (the source driver is the one that
\* handles it), has just been handled.
HappyRequest(t) ==
    /\ last.op = "request"
    /\ last.key = {t}
    /\ last.entry = "absent"
    /\ last.matches
    /\ OnChainDestinations \subseteq drivers

\* An invocation that locked t has sent MESSAGE:SIGNED with author and signer
\* this node, and the cache entry of t holds the signature sent.
SignedAndCached(t) ==
    /\ last.op = "sign"
    /\ last.key = {t}
    /\ \E f \in SignedFramesOf(last.out) :
          /\ f.author = NodeAddress
          /\ f.signer = NodeAddress
          /\ f.values.txId = t
          /\ signatures[t] = Signed(f.signature)

\* An RPC of an invocation that locked t failed or returned too few
\* confirmations, or its feature stage failed: not the happy path.
StepFailed(t) ==
    /\ last.key = {t}
    /\ \/ last.op \in {"populate", "validate"} /\ last.res # "ok"
       \/ last.op = "feature" /\ last.res \in {"featureFailed", "throw", "reject"}

C6_OneSigningAttempt ==
    \A i, j \in Slots :
        (/\ i # j
         /\ inflight[i].pc \in {"validate", "feature", "sign"}
         /\ inflight[j].pc \in {"validate", "feature", "sign"})
            => inflight[i].msg.values.txId # inflight[j].msg.values.txId

\* C7: no MESSAGE:SIGNED is sent for a txId for which a MESSAGE:INVALID has
\* been sent.  (A step sends frames of one kind, so invalidFor here holds
\* the MESSAGE:INVALID frames of earlier steps.)
C7_NoSignedAfterInvalid ==
    \A f \in SignedFramesOf(last.out) : f.values.txId \notin invalidFor

\* C8: when isMessageValid has answered true and the destination chain read
\* from the chain has no loaded driver, the invocation sends
\* PENALTY:CHAINMISS and nothing else, and returns normally.
C8_ChainMissIsPenalised ==
    (/\ last.op = "validate"
     /\ last.res = "ok"
     /\ Types(last.out) # << "MESSAGE:INVALID" >>
     /\ OnChainDestinations \cap drivers = {})
        => /\ Types(last.out) = << "PENALTY:CHAINMISS" >>
           /\ last.ended
           /\ ~last.threw

\* The feature's process threw, rejected or returned featureFailed = true.
FeatureFailedNow ==
    last.op = "feature" /\ last.res \in {"featureFailed", "throw", "reject"}

\* C9: when the registered feature throws, rejects or returns
\* featureFailed = true, the invocation has sent FEATURE:START and then
\* FEATURE:FAILED and nothing else (no MESSAGE:SIGNED), and it returns
\* normally.
C9_FeatureFailure ==
    FeatureFailedNow =>
        /\ last.trace = << "FEATURE:START", "FEATURE:FAILED" >>
        /\ last.ended
        /\ ~last.threw
        /\ last.calls = {}

\* The feature's promise has just rejected.
C9_Witness == last.op = "feature" /\ last.res = "reject" /\ Len(last.out) = 1

\* C10: a REQUEST handled when the retry counter of its txId, counting this
\* REQUEST, exceeds RetryLimit sends nothing, starts no call and leaves the
\* signature cache as it was.
C10_RetryExhaustion ==
    [][ (/\ last'.op = "request"
         /\ \E t \in TxIds : last'.key = {t} /\ retries'[t] > RetryLimit)
            => /\ last'.out = <<>>
               /\ last'.calls = {}
               /\ signatures' = signatures ]_vars

\* A further REQUEST has been dropped after the one that exceeded the limit.
C10_Witness ==
    /\ last.op = "request"
    /\ last.res = "dropped"
    /\ \E t \in TxIds : last.key = {t} /\ retries[t] > RetryLimit + 1

\* C14: no exception and no rejected promise escapes processMessageRequest,
\* whatever the REQUEST and the chain say.
C14_NoExceptionEscapes == ~last.threw

\* C17: when populateMessage fails, the invocation sends no frame and the
\* cache entry of the txId it locked is absent when it returns.
C17_PopulateFailureUnlocks ==
    (last.op = "populate" /\ last.res = "error") =>
        /\ last.out = <<>>
        /\ last.ended
        /\ \A t \in last.key : signatures[t] = Absent

\* C18: an invocation that locked the cache entry of a txId leaves it, when
\* it ends, absent or holding a signature; after MESSAGE:INVALID it is absent.
C18_NoLockLeftBehind ==
    (Resumed /\ last.ended) =>
        \A t \in last.key :
            /\ signatures[t] # LockedEntry
            /\ Types(last.out) = << "MESSAGE:INVALID" >> => signatures[t] = Absent

\* C19: after a feature failure the cache entry of the txId the invocation
\* locked is absent, so that a later REQUEST for it is accepted again.
C19_FeatureFailureUnlocks ==
    FeatureFailedNow => \A t \in last.key : signatures[t] = Absent

\* C20: when the confirmation wait returns fewer confirmations than
\* values.confirmations, the invocation sends no frame, does not sign, and
\* leaves the cache entry of the txId it locked absent.
C20_ShortfallIsSilent ==
    (last.op = "validate" /\ last.res = "short") =>
        /\ last.out = <<>>
        /\ last.calls = {}
        /\ last.ended
        /\ \A t \in last.key : signatures[t] = Absent

\* The frames an invocation sends, in order, are a prefix of one of these.
Lifecycles ==
    { << "FEATURE:START", "FEATURE:COMPLETED", "MESSAGE:SIGNED" >>,
      << "FEATURE:START", "FEATURE:FAILED" >>,
      << "MESSAGE:SIGNED" >>, << "MESSAGE:INVALID" >>, << "PENALTY:CHAINMISS" >> }

IsPrefix(s, t) == Len(s) <= Len(t) /\ s = SubSeq(t, 1, Len(s))

\* C12: the frames of one invocation are ordered FEATURE:START, then
\* FEATURE:COMPLETED or FEATURE:FAILED, then MESSAGE:SIGNED only after
\* FEATURE:COMPLETED; and no MESSAGE:SIGNED for a txId is sent after a
\* FEATURE:START for that txId without a FEATURE:COMPLETED in between.
C12_FeatureOrdering ==
    /\ \E l \in Lifecycles : IsPrefix(last.trace, l)
    /\ \A f \in SignedFramesOf(last.out) : ~startUnanswered[f.values.txId]

\* The invocations suspended in their feature stage with values.txId = t.
InFeatureStage(t) ==
    {i \in Slots : inflight[i].pc = "feature" /\ inflight[i].msg.values.txId = t}

\* C13: in every prefix of the frames sent, for every txId, the
\* FEATURE:START frames are at least the FEATURE:COMPLETED plus FEATURE:FAILED
\* frames, each of these closing the FEATURE:START of its own invocation:
\* the difference is the number of invocations still in their feature stage,
\* and 0 when none is in flight.
C13_OneStartPerOutcome ==
    \A t \in TxIds :
        /\ openStarts[t] >= 0
        /\ openStarts[t] = Cardinality(InFeatureStage(t))
        /\ (last.op = "feature" /\ last.ended) =>
              \/ last.trace = << "FEATURE:START", "FEATURE:FAILED" >>
              \/ last.threw /\ last.trace = << "FEATURE:START", "FEATURE:COMPLETED" >>
        /\ (last.op = "feature" /\ last.out # <<>>) =>
              /\ Len(last.trace) = 2
              /\ last.trace[1] = "FEATURE:START"

\* A feature outcome has just been sent while another invocation for the
\* same txId is still in its feature stage.
C13_Witness ==
    /\ last.op = "feature"
    /\ last.out # <<>>
    /\ \E t \in TxIds : last.out[1].values.txId = t /\ openStarts[t] >= 1

\* C15: processMessageRequest is called only for a frame taken from topic
\* MESSAGE:REQUEST, and only on the loaded driver whose chain id is the
\* frame's source; a frame taken from any other topic calls no driver and
\* leaves the signature, retry and feature-reply caches as they were.
C15_RoutingByTopicAndSource ==
    /\ [](/\ delivery.invoked # {} =>
                /\ delivery.topic = "MESSAGE:REQUEST"
                /\ delivery.invoked = {delivery.source}
                /\ delivery.source \in drivers
          /\ last.op = "request" =>
                /\ delivery.topic = "MESSAGE:REQUEST"
                /\ delivery.source = ThisChainId
          /\ delivery.topic \notin {"MESSAGE:REQUEST", "none"} =>
                /\ delivery.invoked = {}
                /\ last.op = "bypass")
    /\ [][delivery'.topic \notin {"MESSAGE:REQUEST", "none"} =>
              UNCHANGED <<signatures, retries, featureReplies, inflight>>]_vars

\* A payload of type MESSAGE:REQUEST for this driver's chain has just come in
\* on the MESSAGE:SIGNED topic while a txId is being worked on.
C15_Witness ==
    /\ delivery.topic = "MESSAGE:SIGNED"
    /\ delivery.source = ThisChainId
    /\ \E t \in TxIds : signatures[t] = LockedEntry

Matches(fs, message) ==
    \A x \in 1 .. Len(fs) :
        IF fs[x][1] = "values"
        THEN \A y \in 1 .. Len(fs[x][2].fields) :
                 ValuesField(message, fs[x][2].fields[y][1]) = fs[x][2].fields[y][2]
        ELSE Get(message, fs[x][1]) = fs[x][2]

\* C16: sendData emits the message to the clients if and only if it matches
\* the configured filters; with an empty filter every message is emitted.
C16_EmitIffMatches ==
    sent.given =>
        /\ sent.emitted <=> Matches(filters, sent.message)
        /\ filters = NoFilters => sent.emitted

\* A message has just been withheld because a field listed under values
\* differs, its top-level fields matching the filter.
C16_Witness ==
    /\ sent.given
    /\ ~sent.emitted
    /\ Len(filters) = 2
    /\ StrictEquals(Get(filters, "author"), Get(sent.message, "author"))

\* C21: a signature cache entry that holds a finalized signature holds that
\* same signature in every later state: no step overwrites it, resets it to
\* locked or deletes it.
C21_SignedIsTerminal ==
    [][\A t \in TxIds :
          signatures[t].st = "signed" => signatures'[t] = signatures[t]]_vars

\* C22: a step of an invocation for the REQUEST with values.txId = X leaves
\* the signature, retry and feature-reply cache entries of every other txId
\* as they were.
C22_DistinctTxIdsIndependent ==
    [][\A x \in last'.key : \A y \in TxIds \ {x} :
          /\ signatures'[y] = signatures[y]
          /\ retries'[y] = retries[y]
          /\ featureReplies'[y] = featureReplies[y]]_vars

\* C23: a REQUEST that finds the cache entry of its txId locked sends no
\* frame, starts no RPC, feature or signing call, and leaves the signature
\* cache, the retry counters, the feature-reply cache and the suspended
\* invocations as they were.
C23_LockedIsIgnored ==
    [][(last'.op = "request" /\ last'.entry = "locked") =>
          /\ last'.out = <<>>
          /\ last'.calls = {}
          /\ last'.ended
          /\ ~last'.threw
          /\ UNCHANGED <<signatures, retries, featureReplies, inflight>>]_vars

\* A REQUEST has just found its txId locked, in the revision that counts
\* retries.
C23_Witness ==
    /\ build = "retry"
    /\ last.op = "request"
    /\ last.entry = "locked"

\* C24: the MESSAGE:SIGNED sent for a REQUEST that finds its txId signed has
\* this node as author and signer, carries the cached signature and, when a
\* feature reply is cached for the txId, that reply.
C24_ReplayCarriesCache ==
    (last.op = "request" /\ last.entry = "signed") =>
        \A k \in last.key :
            /\ Len(last.out) = 1
            /\ last.out[1].type = "MESSAGE:SIGNED"
            /\ last.out[1].author = NodeAddress
            /\ last.out[1].signer = NodeAddress
            /\ last.out[1].signature = signatures[k].sig
            /\ featureReplies[k] # Undefined =>
                  last.out[1].featureReply = featureReplies[k]

\* A signature has just been replayed for a txId with a cached feature reply.
C24_Witness ==
    /\ last.op = "request"
    /\ last.entry = "signed"
    /\ \E k \in last.key : featureReplies[k] # Undefined

\* C27: the feature stage is entered only on on-chain data: every
\* FEATURE:START the node sends, every feature invocation it starts and every
\* feature reply it caches is for a transaction whose receipt holds a
\* SendMessageWithFeature log.
C27_FeatureOnlyFromChain ==
    /\ \A x \in 1 .. Len(last.out) :
          last.out[x].type = "FEATURE:START" =>
              FirstLog(Receipts[last.out[x].transactionHash],
                       "SendMessageWithFeature") # 0
    /\ \A i \in Slots :
          inflight[i].pc = "feature" =>
              FirstLog(Receipts[inflight[i].msg.transactionHash],
                       "SendMessageWithFeature") # 0
    /\ \A t \in TxIds :
          featureReplies[t] # Undefined =>
              \E h \in Hashes :
                  /\ FirstLog(Receipts[h], "SendMessageWithFeature") # 0
                  /\ FirstLog(Receipts[h], "SendRequested") # 0
                  /\ Receipts[h][FirstLog(Receipts[h], "SendRequested")].args.txId = t

\* C28: the signature a first sign stores and publishes is the signature of
\* the node key over (values.txId, the source driver's chainId, values.chain,
\* values.sender, values.recipient, values.encodedData) of the message in the
\* MESSAGE:SIGNED frame, the destination chain has a driver, and the cache
\* entry written is the one of values.txId.
C28_SignatureOverValidatedTuple ==
    (last.op = "sign" /\ last.res = "ok") =>
        /\ Len(last.out) = 1
        /\ LET f == last.out[1]
           IN  /\ f.type = "MESSAGE:SIGNED"
               /\ f.values.chain \in drivers
               /\ f.signature =
                     [key |-> NodeAddress, txId |-> f.values.txId,
                      sourceChainId |-> ThisChainId,
                      destChainId |-> f.values.chain,
                      sender |-> getAddress(f.values.sender),
                      recipient |-> getAddress(f.values.recipient),
                      data |-> f.values.encodedData]
               /\ signatures[f.values.txId] = Signed(f.signature)

\* A first sign has just completed.
C28_Witness ==
    /\ last.op = "sign"
    /\ last.res = "ok"
    /\ Len(last.out) = 1
    /\ last.out[1].type = "MESSAGE:SIGNED"

\* C30: a MESSAGE:REQUEST or MESSAGE:SIGNED frame is dropped at the ingress
\* exactly when a frame with the same (type, author, transactionHash) reached
\* the ingress within the 5 seconds before it, whether that earlier frame was
\* forwarded or dropped.
C30_DropIffSeenWithinWindow ==
    arrived.topic \in {"MESSAGE:REQUEST", "MESSAGE:SIGNED"} =>
        (~arrived.forwarded <=>
            (arrived.sincePrev # Never /\ arrived.sincePrev <= DedupWindow))

\* C25: when processFeatures settles for a validated request whose featureId
\* is not registered, the invocation sends FEATURE:FAILED with featureFailed
\* set and ends: no FEATURE:COMPLETED, no signing call, no MESSAGE:SIGNED.
C25_UnregisteredFeatureFails ==
    (last.op = "feature" /\ last.res = "unregistered") =>
        /\ Types(last.out) = << "FEATURE:FAILED" >>
        /\ last.out[1].featureFailed
        /\ last.calls = {}
        /\ last.ended

\* C26: the message populateMessage returns has no values when the receipt
\* holds no SendRequested log, whatever values the peer sent, and has the
\* decoded arguments of that log as its values when the receipt holds one.
C26_ValuesOnlyFromLog ==
    probe.fn = "populateMessage" =>
        LET logs == Receipts[probe.msg.transactionHash]
            found == {x \in 1 .. Len(logs) : logs[x].topic = "SendRequested"}
        IN  IF found = {}
            THEN probe.result.values = NoValues
            ELSE \E x \in found :
                    /\ \A y \in found : x <= y
                    /\ probe.result.values = logs[x].args

\* C29: isMessageValid(m) is true exactly when the receipt has the
\* confirmations m.values asks for and holds a SendRequested log of the
\* message contract whose arguments equal m.values: txId, chain, express,
\* confirmations and payload exactly, sender and recipient up to letter
\* case.  Otherwise (also when the RPC fails) it is false.
C29_ValidIffLogMatches ==
    probe.fn = "isMessageValid" =>
        (probe.result <=>
            /\ probe.msg.transactionHash # Undefined
            /\ probe.msg.values # NoValues
            /\ probe.rpc = "ok"
            /\ \E x \in 1 .. Len(Receipts[probe.msg.transactionHash]) :
                  LET log == Receipts[probe.msg.transactionHash][x]
                      v == probe.msg.values
                  IN  /\ log.address = MessageContract
                      /\ log.topic = "SendRequested"
                      /\ log.args.txId = v.txId
                      /\ log.args.chain = v.chain
                      /\ log.args.express = v.express
                      /\ log.args.confirmations = v.confirmations
                      /\ log.args.encodedData = v.encodedData
                      /\ log.args.sender.id = v.sender.id
                      /\ log.args.recipient.id = v.recipient.id)

\* isMessageValid has just returned true for values that differ from the
\* log in the letter case of an address only.
C29_Witness ==
    /\ probe.fn = "isMessageValid"
    /\ probe.result
    /\ probe.msg.values.sender.lower

\* C31: when the ingress has just taken a decoded frame, of any topic, every entry of
\* recentMessages is at most 5 seconds old, is of type MESSAGE:REQUEST or
\* MESSAGE:SIGNED, and no two entries have the same (type, author,
\* transactionHash).
C31_WindowIsPruned ==
    arrived.topic \notin {"none", "undecodable"} =>
        /\ \A x \in 1 .. Len(recentMessages) :
              /\ now - recentMessages[x].timestamp <= DedupWindow
              /\ recentMessages[x].type \in {"MESSAGE:REQUEST", "MESSAGE:SIGNED"}
        /\ \A x, y \in 1 .. Len(recentMessages) :
              (/\ recentMessages[x].type = recentMessages[y].type
               /\ recentMessages[x].author = recentMessages[y].author
               /\ recentMessages[x].transactionHash = recentMessages[y].transactionHash)
                  => x = y

\* A frame of another topic has just passed the ingress while the window
\* holds an entry that is exactly 5 seconds old, and a younger one.
C31_Witness ==
    /\ arrived.topic = "HEARTBEAT"
    /\ Len(recentMessages) >= 2
    /\ \E x \in 1 .. Len(recentMessages) :
          now - recentMessages[x].timestamp = DedupWindow

\* C32: when the orchestrator takes a frame whose source has no driver and
\* is not the heartbeat's, a PENALTY:CHAINMISS frame is published; for a
\* frame with the heartbeat's source nothing is published.
C32_UnknownSourcePenalised ==
    /\ (/\ delivery.topic \notin {"none", PeerDiscovery}
        /\ delivery.source \notin drivers
        /\ delivery.source # HeartbeatSource)
          => \E x \in 1 .. Len(last.out) : last.out[x].type = "PENALTY:CHAINMISS"
    /\ (delivery.topic # "none" /\ delivery.source = HeartbeatSource)
          => last.out = << >>

\* C33: a heartbeat the node publishes has type HEARTBEAT, source 1010101010
\* and the node's address as author; a frame taken on the HEARTBEAT topic
\* calls no driver, sends nothing and changes no cache and no suspended
\* invocation.
C33_HeartbeatsBypassDrivers ==
    /\ [](/\ last.op = "heartbeat" =>
                /\ Len(last.out) = 1
                /\ last.out[1].type = "HEARTBEAT"
          /\ \A x \in 1 .. Len(last.out) :
                last.out[x].type = "HEARTBEAT" =>
                    /\ last.out[x].source = HeartbeatSource
                    /\ last.out[x].author = NodeAddress
          /\ delivery.topic = "HEARTBEAT" =>
                /\ delivery.invoked = {}
                /\ last.op = "bypass"
                /\ last.out = << >>)
    /\ [][delivery'.topic = "HEARTBEAT" =>
              UNCHANGED <<signatures, retries, featureReplies, inflight>>]_vars

\* The node's own heartbeat has just come back from the bus while a txId is
\* being worked on.
C33_Witness ==
    /\ delivery.topic = "HEARTBEAT"
    /\ delivery.author = NodeAddress
    /\ delivery.source = HeartbeatSource
    /\ \E t \in TxIds : signatures[t] = LockedEntry

\* C40: the node publishes no MESSAGE:REQUEST; a frame it published, taken
\* back from the bus, calls no driver, sends nothing and changes no cache and
\* no suspended invocation; an invocation sends at most three frames.  So
\* every frame the node sends belongs to a REQUEST of a peer or to the
\* heartbeat timer.
C40_NoSelfFeedback ==
    /\ [](/\ \A x \in 1 .. Len(last.out) : last.out[x].type # "MESSAGE:REQUEST"
          /\ Len(last.trace) <= 3
          /\ delivery.author = NodeAddress =>
                /\ delivery.invoked = {}
                /\ last.op = "bypass"
                /\ last.out = << >>)
    /\ [][delivery'.author = NodeAddress =>
              UNCHANGED <<signatures, retries, featureReplies, inflight>>]_vars

\* The MESSAGE:SIGNED the node published for a txId has just come back from
\* the bus.
C40_Witness ==
    /\ delivery.author = NodeAddress
    /\ delivery.topic = "MESSAGE:SIGNED"
    /\ delivery.source = ThisChainId
    /\ \E t \in TxIds : signatures[t].st = "signed"

\* C36: in the revision with retries, retries[txId] never decreases; it
\* grows only by one, and only in a REQUEST step for that txId that finds
\* the cache entry absent; every such step increments it; a REQUEST that
\* finds the entry locked or signed leaves the counters alone; and the entry
\* becomes locked only in a step that brings the counter to at most 3.
C36_RetryCounter ==
    [][build = "retry" =>
         \A t \in TxIds :
            /\ retries'[t] >= retries[t]
            /\ retries'[t] # retries[t] =>
                  /\ retries'[t] = retries[t] + 1
                  /\ last'.op = "request"
                  /\ last'.entry = "absent"
                  /\ last'.key = {t}
                  /\ signatures[t] = Absent
            /\ (last'.op = "request" /\ last'.entry = "absent" /\ last'.key = {t}) =>
                  retries'[t] = retries[t] + 1
            /\ (last'.op = "request" /\ last'.entry \in {"locked", "signed"}) =>
                  retries' = retries
            /\ (signatures[t] # LockedEntry /\ signatures'[t] = LockedEntry) =>
                  /\ retries'[t] = retries[t] + 1
                  /\ retries'[t] <= RetryLimit]_vars

\* The third REQUEST for a txId has just been let through and has locked the
\* entry, and a further one has been dropped for the other txId.
C36_Witness ==
    /\ build = "retry"
    /\ last.op = "request"
    /\ last.entry = "absent"
    /\ \E t \in last.key : retries[t] = RetryLimit /\ signatures[t] = LockedEntry
    /\ \E t \in TxIds : retries[t] > RetryLimit

\* The receipt of transaction h holds a SendRequested log of the message
\* contract with the arguments v, addresses compared by their bytes.
LoggedByMessageContract(h, v) ==
    \E x \in 1 .. Len(Receipts[h]) :
        LET log == Receipts[h][x]
        IN  /\ log.address = MessageContract
            /\ log.topic = "SendRequested"
            /\ log.args.txId = v.txId
            /\ log.args.chain = v.chain
            /\ log.args.express = v.express
            /\ log.args.confirmations = v.confirmations
            /\ log.args.encodedData = v.encodedData
            /\ log.args.sender.id = v.sender.id
            /\ log.args.recipient.id = v.recipient.id

\* C37: an invocation passes from validation to the feature stage or to
\* signing only in the step in which isMessageValid answers true (the receipt
\* came with its confirmations and holds a matching log of the message
\* contract); the values are the same when it signs; a cache entry becomes a
\* finalized signature only in the sign step of such an invocation, over
\* those values; and every finalized entry is a signature over values logged
\* by the message contract for its txId.
C37_NoSignatureWithoutValidation ==
    /\ [][\A i \in Slots :
            /\ (inflight'[i].pc \in {"feature", "sign"}
                  /\ inflight[i].pc \notin {"feature", "sign"}) =>
                  /\ inflight[i].pc = "validate"
                  /\ last'.op = "validate"
                  /\ last'.res = "ok"
                  /\ LoggedByMessageContract(inflight'[i].msg.transactionHash,
                                             inflight'[i].msg.values)
            /\ (inflight[i].pc = "feature" /\ inflight'[i].pc = "sign") =>
                  /\ inflight'[i].msg.values = inflight[i].msg.values
                  /\ inflight'[i].msg.transactionHash = inflight[i].msg.transactionHash]_vars
    /\ [][\A t \in TxIds :
            (signatures'[t].st = "signed" /\ signatures'[t] # signatures[t]) =>
                /\ last'.op = "sign"
                /\ \E i \in Slots :
                      /\ inflight[i].pc = "sign"
                      /\ inflight'[i].pc = "idle"
                      /\ inflight[i].msg.values.txId = t
                      /\ \A f \in SignedFramesOf(last'.out) :
                            /\ f.values = inflight[i].msg.values
                            /\ f.signature = signatures'[t].sig]_vars
    /\ [](\A t \in TxIds :
            signatures[t].st = "signed" =>
                \E h \in Hashes, v \in {V1, V2} :
                    /\ LoggedByMessageContract(h, v)
                    /\ v.txId = t
                    /\ signatures[t].sig.txId = t
                    /\ signatures[t].sig.destChainId = v.chain
                    /\ signatures[t].sig.sender = v.sender
                    /\ signatures[t].sig.recipient = v.recipient
                    /\ signatures[t].sig.data = v.encodedData)

\* A first sign has just stored a signature for values the peer sent with a
\* lower-case sender, validated against the log.
C37_Witness ==
    /\ last.op = "sign"
    /\ last.res = "ok"
    /\ \E f \in SignedFramesOf(last.out) :
          /\ f.values.sender.lower
          /\ signatures[f.values.txId] = Signed(f.signature)

\* C38: every frame a step of the coordinator sends is of one of its six
\* types and has the node's address as author, which is not the author of
\* the REQUEST; every MESSAGE:SIGNED has the node's address as signer.
C38_FramesAuthoredByNode ==
    /\ NodeAddress # PeerAuthor
    /\ \A x \in 1 .. Len(last.out) :
          /\ last.out[x].type \in
                {"MESSAGE:SIGNED", "MESSAGE:INVALID", "PENALTY:CHAINMISS",
                 "FEATURE:START", "FEATURE:FAILED", "FEATURE:COMPLETED"}
          /\ last.out[x].author = NodeAddress
          /\ last.out[x].type = "MESSAGE:SIGNED" => last.out[x].signer = NodeAddress

\* A MESSAGE:INVALID has just been sent for a REQUEST of a peer.
C38_Witness ==
    /\ last.op = "validate"
    /\ Len(last.out) = 1
    /\ last.out[1].type = "MESSAGE:INVALID"
    /\ last.out[1].author = NodeAddress

\* C39: a PENALTY:CHAINMISS is sent only for a transaction whose destination
\* chain, as logged by the message contract, has no loaded driver.
C39_ChainMissOnlyForOnChainDestination ==
    \A x \in 1 .. Len(last.out) :
        last.out[x].type = "PENALTY:CHAINMISS" =>
            \E y \in 1 .. Len(Receipts[last.out[x].transactionHash]) :
                LET log == Receipts[last.out[x].transactionHash][y]
                IN  /\ log.address = MessageContract
                    /\ log.topic = "SendRequested"
                    /\ log.args.chain \notin drivers

\* C35: connect for a chain without a known message contract fails with an
\* error its caller sees, and a driver whose connect did not succeed is not
\* among the drivers that requests are validated, populated and signed with.
C35_ConnectFailureIsVisible ==
    (probe.fn = "connect" /\ ~probe.configured) =>
        /\ probe.threw
        /\ ~probe.inTable

\* C34: a frame whose payload is not valid JSON is dropped.  At the ingress
\* the message handler is not called and the window and the clock of the
\* window are as before; at the orchestrator no driver is called, nothing is
\* streamed or sent, and the signature cache, the retry counters, the
\* feature-reply cache and the suspended invocations are as before.
C34_UndecodableIsDropped ==
    /\ [][(arrived'.topic = "undecodable" /\ arrived' # arrived) =>
              /\ ~arrived'.forwarded
              /\ UNCHANGED <<recentMessages, lastArrival, lastForwarded,
                             signatures, retries, featureReplies, inflight,
                             last, delivery>>]_vars
    /\ [][(delivery'.topic # "none" /\ ~delivery'.streamed
              /\ delivery' # delivery) =>
              /\ delivery'.invoked = {}
              /\ last'.op = "bypass"
              /\ last'.out = << >>
              /\ last'.calls = {}
              /\ UNCHANGED <<signatures, retries, featureReplies, inflight,
                             recentMessages, arrived>>]_vars

\* Undecodable payloads have been dropped by both decoders while the window
\* holds an entry older than 5 seconds, a txId is locked and its retry
\* counter is above zero.
C34_Witness ==
    /\ arrived.topic = "undecodable"
    /\ \E x \in 1 .. Len(recentMessages) :
          now - recentMessages[x].timestamp > DedupWindow
    /\ delivery.topic = "MESSAGE:REQUEST"
    /\ ~delivery.streamed
    /\ last.op = "bypass"
    /\ \E t \in TxIds : signatures[t] = LockedEntry /\ retries[t] > 0

====
